---- MODULE Spec2Model ----
(***************************************************************************)
(* A model of filelike.FileLikeBase (the "Stream Core"): the buffered      *)
(* read / readline / write / seek / tell / flush / close methods built on  *)
(* the four primitives _read, _write, _seek and _tell of a backing         *)
(* resource.                                                               *)
(*                                                                         *)
(* Strings are sequences of small integers (bytes); NL is "\n".  Python's  *)
(* None is the value None below, which is no string of bytes.  A method    *)
(* is an operator from the object (a record of its fields and of the       *)
(* backing resource) to the SET of its possible outcomes, one per choice   *)
(* the primitives may make; an outcome is the object afterwards, the       *)
(* value returned and the exception raised ("ok" for none).                *)
(***************************************************************************)
EXTENDS Integers, Sequences, FiniteSets, TLC

\* ---------------------------------------------------------------- bounds
MaxLen == 3         \* longest initial content of a read-only stream
MaxSize == 3        \* longest content the writes may build
MaxReadSize == 2    \* largest size handed to read(size) and readline(size)
MaxBufsize == 2     \* largest bufsize (chunk size of readline)
MaxOver == 1        \* most bytes _read returns beyond its size hint
MaxGap == 1         \* furthest an inexact _seek stops short of its target
MaxStall == 1       \* most empty strings _read returns to one read(size)
MaxJoinSize == 4    \* longest content the writes to a join may build

NL == 0             \* the line terminator "\n"
Byte == {NL, 1}     \* bytes of the initial content
\* The initial contents of a read-write stream, and the strings written.
Contents == {<<>>, <<1, NL, 3>>}
WriteStrings == {<<>>, <<2>>, <<NL, 2>>}
\* The contents of the files of a join: three files of a byte each (as
\* Test_Join's three files of 5, 3 and the rest), an empty file in the
\* middle, an empty first and last file.
JoinParts == {<<<<1>>, <<NL>>, <<3>>>>,
              <<<<1>>, <<>>, <<NL, 3>>>>,
              <<<<>>, <<1, NL>>, <<>>>>}

None == <<-1>>      \* Python's None: not a string of bytes

Min(a, b) == IF a < b THEN a ELSE b
Max(a, b) == IF a > b THEN a ELSE b

\* Python truthiness of a buffer: neither None nor the empty string.
Truthy(b) == b # None /\ b # <<>>
\* len(b) of a buffer used only where the code has tested it to be truthy.
BLen(b) == IF Truthy(b) THEN Len(b) ELSE 0
\* Strings of bytes from S with lo <= length <= hi.
Strings(S, lo, hi) == UNION {[1..n -> S] : n \in lo..hi}
\* data[a:] and data[:a] of Python, for 0 <= a.
From(data, a) == SubSeq(data, a + 1, Len(data))
Upto(data, a) == SubSeq(data, 1, Min(a, Len(data)))
\* The strings of ls joined.
RECURSIVE Flatten(_)
Flatten(ls) == IF ls = <<>> THEN <<>> ELSE Head(ls) \o Flatten(Tail(ls))
\* string.find(c): the 0-based index of the first c, or -1.
find(string, c) ==
    IF \E i \in 1..Len(string) : string[i] = c
    THEN (CHOOSE i \in 1..Len(string) :
              string[i] = c /\ \A j \in 1..(i - 1) : string[j] # c) - 1
    ELSE -1

\* ------------------------------------------------------------- outcomes
Ok(f, out) == [st |-> f, out |-> out, err |-> "ok"]
Raise(f, e) == [st |-> f, out |-> None, err |-> e]
\* Sequencing: run K on every normal outcome, let an exception propagate.
Bind(S, K(_)) == UNION {IF r.err = "ok" THEN K(r) ELSE {r} : r \in S}

\* content with data written over it from offset p on.
Overlay(content, p, data) ==
    [i \in 1..Max(Len(content), p + Len(data)) |->
        IF i > p /\ i <= p + Len(data) THEN data[i - p] ELSE content[i]]

\* ------------------------------------------------------------ join
(* filelike.join (the "Stream Join"): a FileLikeBase whose primitives      *)
(* delegate to the files of a list, f.files, the one in use being          *)
(* f.files[f.curFile + 1] (curFile counts from 0 as in the code).  An      *)
(* object that is no join has no files.  The files are StringIO objects    *)
(* as in Test_Join.makeFile: a string, a cursor, whether it is closed, and *)
(* whether it holds data written since its last flush (dirty).             *)
RECURSIVE seek(_, _, _)

StringIO(c) == [content |-> c, pos |-> 0, closed |-> FALSE, dirty |-> FALSE]

IsJoin(f) == f.files # <<>>

\* The content of the files of a join, one after the other.
JoinContent(files) == Flatten([i \in 1..Len(files) |-> files[i].content])

\* StringIO.write(s): nothing for an empty s.
StringIO_write(cf, s) ==
    IF s = <<>> THEN cf
    ELSE [cf EXCEPT !.content = Overlay(cf.content, cf.pos, s),
                    !.pos = cf.pos + Len(s), !.dirty = TRUE]

\* join._tell(): the positions of the files up to the current one, summed.
RECURSIVE join_tell_upto(_, _)
join_tell_upto(files, n) ==
    IF n = 0 THEN 0 ELSE join_tell_upto(files, n - 1) + files[n].pos

join_tell(f) == join_tell_upto(f.files, Min(f.curFile + 1, Len(f.files)))

\* join._read(sizehint) that reports the end at the first file that is
\* exhausted.
join_read_first(f, sizehint) ==
    LET f1 == [f EXCEPT !.prims = TRUE]
        cf == f.files[f.curFile + 1]
        rem == Len(cf.content) - cf.pos
        k == IF sizehint < 0 THEN rem ELSE Min(rem, sizehint)
    IN  IF f.curFile >= Len(f.files) THEN {Raise(f1, "IndexError")}
        ELSE IF cf.closed THEN {Raise(f1, "ValueError")}
        ELSE IF k <= 0 THEN {Ok([f1 EXCEPT !.sawEnd = TRUE], None)}
        ELSE {Ok([f1 EXCEPT !.files[f.curFile + 1].pos = cf.pos + k],
                 SubSeq(cf.content, cf.pos + 1, cf.pos + k))}

\* join._read(sizehint)
RECURSIVE join_read(_, _)
join_read(f, sizehint) ==
    LET f1 == [f EXCEPT !.prims = TRUE]
        cf == f.files[f.curFile + 1]
        rem == Len(cf.content) - cf.pos
        k == IF sizehint < 0 THEN rem ELSE Min(rem, sizehint)
    IN  IF f.curFile >= Len(f.files) THEN {Raise(f1, "IndexError")}
        ELSE IF cf.closed THEN {Raise(f1, "ValueError")}
        ELSE IF k <= 0
        THEN IF f.curFile = Len(f.files) - 1
             THEN {Ok([f1 EXCEPT !.sawEnd = TRUE], None)}
             ELSE join_read([f1 EXCEPT !.curFile = @ + 1], sizehint)
        ELSE {Ok([f1 EXCEPT !.files[f.curFile + 1].pos = cf.pos + k],
                 SubSeq(cf.content, cf.pos + 1, cf.pos + k))}

\* join._write(data, flushing) that writes all the data to the current file.
join_write_whole(f, data, flushing) ==
    LET f1 == [f EXCEPT !.prims = TRUE]
        cf == f.files[f.curFile + 1]
    IN  IF f.curFile >= Len(f.files) THEN {Raise(f1, "IndexError")}
        ELSE IF cf.closed THEN {Raise(f1, "ValueError")}
        ELSE {Ok([f1 EXCEPT !.files[f.curFile + 1] = StringIO_write(cf, data)],
                 None)}

\* join._write(data, flushing)
RECURSIVE join_write(_, _, _)
join_write(f, data, flushing) ==
    LET f1 == [f EXCEPT !.prims = TRUE]
        cf == f.files[f.curFile + 1]
        gap == Len(cf.content) - cf.pos
        written(d) == [f1 EXCEPT !.files[f.curFile + 1] = StringIO_write(cf, d)]
    IN  IF f.curFile >= Len(f.files) THEN {Raise(f1, "IndexError")}
        ELSE IF cf.closed THEN {Raise(f1, "ValueError")}
        ELSE IF f.curFile = Len(f.files) - 1 THEN {Ok(written(data), None)}
        ELSE IF gap >= Len(data) THEN {Ok(written(data), None)}
        ELSE join_write([written(Upto(data, gap)) EXCEPT !.curFile = @ + 1],
                        From(data, gap), flushing)

RECURSIVE join_seek_back(_, _)
\* join._seek(offset, 1) with offset < 0 that leaves the files it goes
\* back over where they are.
join_seek_back_unreset(f, offset) ==
    LET i == f.curFile + 1
        off1 == f.files[i].pos
    IN  IF f.curFile >= Len(f.files) THEN {Raise(f, "IndexError")}
        ELSE IF off1 < -1 * offset
        THEN IF f.curFile = 0 THEN {Ok([f EXCEPT !.files[i].pos = 0], None)}
             ELSE join_seek_back([f EXCEPT !.curFile = @ - 1], offset + off1)
        ELSE {Ok([f EXCEPT !.files[i].pos = Max(0, off1 + offset)], None)}

\* join._seek(offset, 1) with offset < 0 that does not take the bytes of
\* the files it has gone back over off the offset.
join_seek_back_whole(f, offset) ==
    LET i == f.curFile + 1
        off1 == f.files[i].pos
        f1 == [f EXCEPT !.files[i].pos = 0]
    IN  IF f.curFile >= Len(f.files) THEN {Raise(f, "IndexError")}
        ELSE IF off1 < -1 * offset
        THEN IF f.curFile = 0 THEN {Ok(f1, None)}
             ELSE join_seek_back([f1 EXCEPT !.curFile = @ - 1], offset)
        ELSE {Ok([f EXCEPT !.files[i].pos = Max(0, off1 + offset)], None)}

\* join._seek(offset, 1) with offset < 0, lines 775-785: back over the
\* files until the offset falls within one.
join_seek_back(f, offset) ==
    LET i == f.curFile + 1
        off1 == f.files[i].pos
        f1 == [f EXCEPT !.files[i].pos = 0]
    IN  IF f.curFile >= Len(f.files) THEN {Raise(f, "IndexError")}
        ELSE IF off1 < -1 * offset
        THEN IF f.curFile = 0 THEN {Ok(f1, None)}
             ELSE join_seek_back([f1 EXCEPT !.curFile = @ - 1], offset + off1)
        ELSE {Ok([f EXCEPT !.files[i].pos = Max(0, off1 + offset)], None)}

\* join._seek(offset, 1) with offset > 0, lines 790-794: on over the files,
\* each left at its end, then seek(offset, 1) back by what is too much.
RECURSIVE join_seek_on(_, _)
join_seek_on(f, offset) ==
    IF offset > 0
    THEN IF f.curFile + 1 >= Len(f.files)
         THEN {Raise([f EXCEPT !.curFile = @ + 1], "IndexError")}
         ELSE LET i == f.curFile + 2
                  size == Len(f.files[i].content)
              IN  join_seek_on([f EXCEPT !.curFile = @ + 1,
                                         !.files[i].pos = size], offset - size)
    ELSE seek(f, offset, 1)

\* join._seek(offset, whence)
RECURSIVE join_seek(_, _, _)
join_seek(f, offset, whence) ==
    LET f1 == [f EXCEPT !.prims = TRUE]
        n == Len(f.files)
        i == f.curFile + 1
    IN  IF whence = 2
        THEN join_seek([f1 EXCEPT
                           !.files = [j \in 1..n |->
                                         IF j >= i
                                         THEN [f.files[j] EXCEPT
                                                  !.pos = Len(f.files[j].content)]
                                         ELSE f.files[j]],
                           !.curFile = n - 1],
                       offset, 1)
        ELSE IF whence = 0 THEN join_seek(f1, offset - join_tell(f), 1)
        ELSE IF offset < 0 THEN join_seek_back(f1, offset)
        ELSE IF offset > 0
        THEN IF f.curFile >= n THEN {Raise(f1, "IndexError")}
             ELSE LET size == Len(f.files[i].content)
                  IN  Bind(join_seek_on([f1 EXCEPT !.files[i].pos = size],
                                        offset + f.files[i].pos - size),
                           LAMBDA r : {Ok(r.st, None)})
        ELSE {Ok(f1, None)}

\* -------------------------------------------- the four primitive methods
(* The backing resource is a string `content` with a cursor `pos`.  The    *)
(* primitives are those of a subclass, free within the contract stated in  *)
(* the docstrings of FileLikeBase._read/_write/_seek/_tell.                *)

\* _read(sizehint): about sizehint bytes (fewer, or up to MaxOver more), all
\* the rest or any part of it for sizehint <= 0, an empty string while
\* data is "not yet available" (f.stall more times during this read(size)),
\* None at EOF and from then on (f.ended) until the cursor is moved.
_read(f, sizehint) ==
    IF IsJoin(f) THEN join_read(f, sizehint) ELSE
    LET rem == Len(f.content) - f.pos
        hi == IF sizehint <= 0 THEN rem ELSE Min(rem, sizehint + MaxOver)
        chunks == {Ok([f EXCEPT !.pos = f.pos + k, !.prims = TRUE],
                      SubSeq(f.content, f.pos + 1, f.pos + k)) : k \in 1..hi}
        stalls == IF f.stall > 0 /\ ~f.ended
                  THEN {Ok([f EXCEPT !.stall = f.stall - 1, !.prims = TRUE], <<>>)}
                  ELSE {}
        atEnd == IF rem = 0
                 THEN {Ok([f EXCEPT !.ended = TRUE, !.sawEnd = TRUE,
                                    !.prims = TRUE], None)}
                 ELSE {}
    IN  chunks \cup stalls \cup atEnd

\* _write(string, flushing): writes a prefix of string at the cursor and
\* returns the rest (None when nothing is left).  Any suffix may be left
\* unwritten outside a flush; in a flush "all the given data is expected
\* to be written", which a resource that absorbs does.
_write(f, string, flushing) ==
    LET g == [f EXCEPT !.wrote = Append(@, [data |-> string,
                                            flushing |-> flushing])]
        n == Len(string)
        js == IF flushing /\ f.absorbs THEN {n} ELSE 0..n
    IN  IF IsJoin(f) THEN join_write(g, string, flushing)
        ELSE {Ok([g EXCEPT !.content = Overlay(f.content, f.pos, Upto(string, j)),
                           !.pos = f.pos + j, !.ended = FALSE, !.prims = TRUE],
                 IF j = n THEN None ELSE From(string, j)) : j \in js}

\* _seek(offset, whence): each call the resource either carries out
\* exactly, or carries out inexactly (it stops up to MaxGap bytes short of
\* the target and returns the bytes in between), or refuses with
\* NotImplementedError; seek(0, 0) is always carried out.  A target outside
\* the content is refused with IOError.
_seek(f, offset, whence) ==
    IF IsJoin(f) THEN join_seek(f, offset, whence) ELSE
    LET target == CASE whence = 0 -> offset
                    [] whence = 1 -> f.pos + offset
                    [] OTHER -> Len(f.content) + offset
        stops == Max(0, target - MaxGap)..target
        f1 == [f EXCEPT !.prims = TRUE]
        refused == IF whence = 0 /\ offset = 0 THEN {}
                   ELSE {Raise(f1, "NotImplementedError")}
    IN  IF target < 0 \/ target > Len(f.content)
        THEN refused \cup {Raise(f1, "IOError")}
        ELSE refused \cup
             {Ok([f1 EXCEPT !.pos = a, !.ended = FALSE],
                 IF a = target THEN None ELSE SubSeq(f.content, a + 1, target))
              : a \in stops}

\* _tell(): the actual position.
_tell(f) == IF IsJoin(f) THEN join_tell(f) ELSE f.pos

\* ------------------------------------------------------- FileLikeBase
\* A mode string is the set of its characters; NoMode is an object with no
\* 'mode' attribute.
NoMode == {"absent"}

\* _check_mode(mode, mstr=self.mode)
_check_mode(f, mode) ==
    IF f.mode = NoMode THEN TRUE
    ELSE IF "+" \in f.mode THEN TRUE
    ELSE IF "-" \in f.mode /\ "-" \notin mode THEN FALSE
    ELSE IF "r" \in mode /\ "r" \notin f.mode THEN FALSE
    ELSE IF "w" \in mode /\ "w" \notin f.mode /\ "a" \notin f.mode THEN FALSE
    ELSE TRUE

\* _assert_mode(mode) without the test for reading.
_assert_mode_write(f, mode) ==
    IF f.mode = NoMode THEN TRUE
    ELSE IF "+" \in f.mode THEN TRUE
    ELSE IF "-" \in f.mode /\ "-" \notin mode THEN FALSE
    ELSE IF "w" \in mode /\ "w" \notin f.mode /\ "a" \notin f.mode THEN FALSE
    ELSE TRUE

\* _assert_mode(mode): the same test, raising IOError where _check_mode
\* returns False.  The operator is TRUE when no exception is raised.
_assert_mode(f, mode) ==
    IF f.mode = NoMode THEN TRUE
    ELSE IF "+" \in f.mode THEN TRUE
    ELSE IF "-" \in f.mode /\ "-" \notin mode THEN FALSE
    ELSE IF "r" \in mode /\ "r" \notin f.mode THEN FALSE
    ELSE IF "w" \in mode /\ "w" \notin f.mode /\ "a" \notin f.mode THEN FALSE
    ELSE TRUE

\* tell() that reports the actual position.
tell_actual(f) == _tell(f)

\* tell(): the apparent position.
tell(f) ==
    _tell(f) - BLen(f.rbuffer) + BLen(f.wbuffer) + BLen(f.sbuffer) + f.soffset

\* flush() that does not look at self.closed.
flush_unchecked(f) ==
    IF _check_mode(f, {"w", "-"}) /\ f.wbuffer # None
    THEN LET buffered == (IF Truthy(f.sbuffer) THEN f.sbuffer ELSE <<>>)
                             \o f.wbuffer
             f1 == [f EXCEPT !.sbuffer = IF Truthy(f.sbuffer) THEN None ELSE @,
                             !.wbuffer = None]
         IN  Bind(_write(f1, buffered, TRUE),
                  LAMBDA r : IF Truthy(r.out)
                             THEN {Raise(r.st, "FlushIncompleteError")}
                             ELSE {Ok(r.st, None)})
    ELSE {Ok(f, None)}

\* flush() that does not look at what _write returns.
flush_silent(f) ==
    IF f.closed THEN {Raise(f, "ClosedError")}
    ELSE IF _check_mode(f, {"w", "-"}) /\ f.wbuffer # None
    THEN LET buffered == (IF Truthy(f.sbuffer) THEN f.sbuffer ELSE <<>>)
                             \o f.wbuffer
             f1 == [f EXCEPT !.sbuffer = IF Truthy(f.sbuffer) THEN None ELSE @,
                             !.wbuffer = None]
         IN  Bind(_write(f1, buffered, TRUE), LAMBDA r : {Ok(r.st, None)})
    ELSE {Ok(f, None)}

\* flush() that keeps in the write buffer the bytes _write has not written.
flush_retaining(f) ==
    IF f.closed THEN {Raise(f, "ClosedError")}
    ELSE IF _check_mode(f, {"w", "-"}) /\ f.wbuffer # None
    THEN LET buffered == (IF Truthy(f.sbuffer) THEN f.sbuffer ELSE <<>>)
                             \o f.wbuffer
             f1 == [f EXCEPT !.sbuffer = IF Truthy(f.sbuffer) THEN None ELSE @,
                             !.wbuffer = None]
         IN  Bind(_write(f1, buffered, TRUE),
                  LAMBDA r : IF Truthy(r.out)
                             THEN {Raise([r.st EXCEPT !.wbuffer = r.out],
                                         "FlushIncompleteError")}
                             ELSE {Ok(r.st, None)})
    ELSE {Ok(f, None)}

\* flush()
flush(f) ==
    IF f.closed THEN {Raise(f, "ClosedError")}
    ELSE IF _check_mode(f, {"w", "-"}) /\ f.wbuffer # None
    THEN LET buffered == (IF Truthy(f.sbuffer) THEN f.sbuffer ELSE <<>>)
                             \o f.wbuffer
             f1 == [f EXCEPT !.sbuffer = IF Truthy(f.sbuffer) THEN None ELSE @,
                             !.wbuffer = None]
         IN  Bind(_write(f1, buffered, TRUE),
                  LAMBDA r : IF Truthy(r.out)
                             THEN {Raise(r.st, "FlushIncompleteError")}
                             ELSE {Ok(r.st, None)})
    ELSE {Ok(f, None)}

\* join.flush(): FileLikeBase.flush(), then flush() of every file, which
\* a closed StringIO refuses.
join_flush(f) ==
    Bind(flush(f), LAMBDA r :
        LET files == r.st.files
            shut == {i \in 1..Len(files) : files[i].closed}
            stop == IF shut = {} THEN Len(files) + 1
                    ELSE CHOOSE i \in shut : \A j \in shut : i <= j
            st == [r.st EXCEPT !.files =
                      [i \in 1..Len(files) |->
                          IF i < stop THEN [files[i] EXCEPT !.dirty = FALSE]
                          ELSE files[i]]]
        IN  IF shut = {} THEN {Ok(st, None)} ELSE {Raise(st, "ValueError")})

\* self.flush() of a method of FileLikeBase: that of the object's class.
self_flush(f) == IF IsJoin(f) THEN join_flush(f) ELSE flush(f)

\* close() that flushes whether or not the file is closed.
close_again(f) ==
    Bind(self_flush(f), LAMBDA r : {Ok([r.st EXCEPT !.closed = TRUE], None)})

\* close() that marks the file closed when its flush() has raised, too.
close_regardless(f) ==
    IF ~f.closed
    THEN {[r EXCEPT !.st.closed = TRUE] : r \in self_flush(f)}
    ELSE {Ok(f, None)}

\* close()
close(f) ==
    IF ~f.closed
    THEN Bind(self_flush(f),
              LAMBDA r : {Ok([r.st EXCEPT !.closed = TRUE], None)})
    ELSE {Ok(f, None)}

\* join.close() that closes the files up to the current one only.
join_close_visited(f) ==
    Bind(close(f), LAMBDA r :
        {Ok([r.st EXCEPT !.files = [i \in 1..Len(r.st.files) |->
                                      IF i <= r.st.curFile + 1
                                      THEN [r.st.files[i] EXCEPT !.closed = TRUE]
                                      ELSE r.st.files[i]]],
            None)})

\* join.close(): FileLikeBase.close(), then close() of every file.
join_close(f) ==
    Bind(close(f), LAMBDA r :
        {Ok([r.st EXCEPT !.files = [i \in 1..Len(r.st.files) |->
                                      [r.st.files[i] EXCEPT !.closed = TRUE]]],
            None)})

\* self.close(): that of the object's class.
self_close(f) == IF IsJoin(f) THEN join_close(f) ELSE close(f)

RECURSIVE read(_, _), read_all(_, _), read_some(_, _, _), discard(_, _)
RECURSIVE readline_loop(_, _, _), for_ln_in_self(_)

\* read(size) that raises at the end of the file instead of returning "".
read_finish_raising(f, data, size) ==
    IF data = <<>> THEN Raise([f EXCEPT !.stall = 0], "IOError")
    ELSE IF Len(data) > size
    THEN Ok([f EXCEPT !.rbuffer = From(data, size), !.stall = 0],
            Upto(data, size))
    ELSE Ok([f EXCEPT !.rbuffer = <<>>, !.stall = 0], data)

\* read(size), lines 393-400: hand out size bytes of data, keep the rest.
read_finish(f, data, size) ==
    IF Len(data) > size
    THEN Ok([f EXCEPT !.rbuffer = From(data, size), !.stall = 0],
            Upto(data, size))
    ELSE Ok([f EXCEPT !.rbuffer = <<>>, !.stall = 0], data)

\* An unbounded read that keeps only the chunk read last.
read_all_last(f, data) ==
    UNION {IF r.out = None THEN {Ok([r.st EXCEPT !.stall = 0], data)}
           ELSE read_all(r.st, r.out) : r \in _read(f, -1)}

\* read(size), lines 373-377: the loop of an unbounded read.
read_all(f, data) ==
    UNION {IF r.out = None THEN {Ok([r.st EXCEPT !.stall = 0], data)}
           ELSE read_all(r.st, data \o r.out) : r \in _read(f, -1)}

\* A sized read that asks the resource once instead of looping.
read_some_once(f, data, size) ==
    IF Len(data) < size
    THEN {read_finish(r.st, IF r.out = None THEN data ELSE data \o r.out, size)
          : r \in _read(f, size - Len(data))}
    ELSE {read_finish(f, data, size)}

\* read(size), lines 387-392: the loop of a sized read.
read_some(f, data, size) ==
    IF Len(data) < size
    THEN UNION {IF r.out = None THEN {read_finish(r.st, data, size)}
                ELSE read_some(r.st, data \o r.out, size)
                : r \in _read(f, size - Len(data))}
    ELSE {read_finish(f, data, size)}

\* A skip that reads a whole chunk for the remainder.
discard_chunks(f, s) ==
    IF s > f.bufsize
    THEN Bind(read(f, f.bufsize), LAMBDA r : discard(r.st, s - f.bufsize))
    ELSE read(f, f.bufsize)

\* read(size), lines 359-365: read and drop the s bytes of a skipped offset.
discard(f, s) ==
    IF s > f.bufsize
    THEN Bind(read(f, f.bufsize), LAMBDA r : discard(r.st, s - f.bufsize))
    ELSE read(f, s)

\* read(size), lines 354-365: discard the data a seek has skipped over.
read_skip(f) ==
    IF Truthy(f.sbuffer)
    THEN read([f EXCEPT !.sbuffer = None], Len(f.sbuffer))
    ELSE IF f.soffset # 0
    THEN discard([f EXCEPT !.soffset = 0], f.soffset)
    ELSE {Ok(f, None)}

\* read(size) that does not seek when the stream was being written.
read_unswitched(f, size) ==
    IF f.closed THEN {Raise(f, "ClosedError")}
    ELSE IF ~_assert_mode(f, {"r", "-"}) THEN {Raise(f, "ModeViolationError")}
    ELSE
    Bind(read_skip(f), LAMBDA r2 :
    IF size <= 0
    THEN read_all([r2.st EXCEPT !.rbuffer = <<>>, !.stall = MaxStall],
                  IF Truthy(r2.st.rbuffer) THEN r2.st.rbuffer ELSE <<>>)
    ELSE read_some([r2.st EXCEPT !.stall = MaxStall],
                   IF Truthy(r2.st.rbuffer) THEN r2.st.rbuffer ELSE <<>>, size))

\* read(size)
read(f, size) ==
    IF f.closed THEN {Raise(f, "ClosedError")}
    ELSE IF ~_assert_mode(f, {"r", "-"}) THEN {Raise(f, "ModeViolationError")}
    ELSE
    Bind(IF f.wbuffer # None THEN seek(f, 0, 1) ELSE {Ok(f, None)}, LAMBDA r1 :
    Bind(read_skip(r1.st), LAMBDA r2 :
    IF size <= 0
    THEN read_all([r2.st EXCEPT !.rbuffer = <<>>, !.stall = MaxStall],
                  IF Truthy(r2.st.rbuffer) THEN r2.st.rbuffer ELSE <<>>)
    ELSE read_some([r2.st EXCEPT !.stall = MaxStall],
                   IF Truthy(r2.st.rbuffer) THEN r2.st.rbuffer ELSE <<>>, size)))

\* readline() that cuts the line before its newline instead of after it.
readline_loop_before(f, data, size) ==
    Bind(read(f, f.bufsize), LAMBDA r :
    LET nextBit == r.out
        all == data \o nextBit
        indx == find(nextBit, NL)
    IN  IF nextBit = <<>> \/ (size > 0 /\ Len(all) >= size)
        THEN IF size > 0 /\ Len(all) > size
             THEN {Ok([r.st EXCEPT !.rbuffer = From(all, size) \o @],
                      Upto(all, size))}
             ELSE {Ok(r.st, all)}
        ELSE IF indx = -1 THEN readline_loop(r.st, all, size)
        ELSE {Ok([r.st EXCEPT !.rbuffer = From(nextBit, indx) \o @],
                 data \o Upto(nextBit, indx))})

\* readline(size): the loop, `data` being the bits read so far.
readline_loop(f, data, size) ==
    Bind(read(f, f.bufsize), LAMBDA r :
    LET nextBit == r.out
        all == data \o nextBit
        indx == find(nextBit, NL)
    IN  IF nextBit = <<>> \/ (size > 0 /\ Len(all) >= size)
        THEN IF size > 0 /\ Len(all) > size
             THEN {Ok([r.st EXCEPT !.rbuffer = From(all, size) \o @],
                      Upto(all, size))}
             ELSE {Ok(r.st, all)}
        ELSE IF indx = -1 THEN readline_loop(r.st, all, size)
        ELSE {Ok([r.st EXCEPT !.rbuffer = From(nextBit, indx + 1) \o @],
                 data \o Upto(nextBit, indx + 1))})

\* readline(size=-1)
readline(f, size) == readline_loop(f, <<>>, size)

\* next(): a line, or StopIteration at the end.
next(f) ==
    Bind(readline(f, -1), LAMBDA r :
         IF r.out = <<>> THEN {Raise(r.st, "StopIteration")} ELSE {r})

\* `for ln in self: pass` of seek(): next() until StopIteration.
for_ln_in_self(f) ==
    UNION {IF r.err = "ok" THEN for_ln_in_self(r.st)
           ELSE IF r.err = "StopIteration" THEN {Ok(r.st, None)}
           ELSE {r} : r \in next(f)}

\* A reset to the start that does not remember the offset.
seek_reset_only(f, offset) ==
    Bind(_seek(f, 0, 0), LAMBDA r : {Ok([r.st EXCEPT !.soffset = 0], None)})

\* seek(), lines 321-323: reset to the start and remember the offset.
seek_reset(f, offset) ==
    Bind(_seek(f, 0, 0), LAMBDA r : {Ok([r.st EXCEPT !.soffset = offset], None)})

\* seek(), lines 319-325: the absolute seek that simulates the refused one.
seek_absolute(f, offset) ==
    UNION {IF r.err = "ok" THEN {Ok([r.st EXCEPT !.sbuffer = r.out], None)}
           ELSE IF r.err = "NotImplementedError"
           THEN Bind(seek_reset(r.st, offset), LAMBDA q :
                     {Ok([q.st EXCEPT !.sbuffer = None], None)})
           ELSE {Raise([r.st EXCEPT !.sbuffer = None], r.err)}
           : r \in _seek(f, offset, 0)}

\* A simulation that takes an offset from the end with the wrong sign.
seek_simulate_sign(f, offset, whence) ==
    IF whence = 1 THEN seek_absolute(f, _tell(f) + offset)
    ELSE IF whence = 2
    THEN IF f.hasSize THEN seek_absolute(f, Len(f.content) - offset)
         ELSE UNION {IF r.err = "ok"
                     THEN seek_absolute(r.st, tell(r.st) - offset)
                     ELSE {Raise([r.st EXCEPT !.sbuffer = None], r.err)}
                     : r \in for_ln_in_self(f)}
    ELSE Bind(seek_reset(f, offset), LAMBDA q :
              {Ok([q.st EXCEPT !.sbuffer = None], None)})

\* seek(), lines 305-325: _seek raised NotImplementedError.
seek_simulate(f, offset, whence) ==
    IF whence = 1 THEN seek_absolute(f, _tell(f) + offset)
    ELSE IF whence = 2
    THEN IF f.hasSize THEN seek_absolute(f, Len(f.content) + offset)
         ELSE UNION {IF r.err = "ok"
                     THEN seek_absolute(r.st, tell(r.st) + offset)
                     ELSE {Raise([r.st EXCEPT !.sbuffer = None], r.err)}
                     : r \in for_ln_in_self(f)}
    ELSE Bind(seek_reset(f, offset), LAMBDA q :
              {Ok([q.st EXCEPT !.sbuffer = None], None)})

\* A relative seek that overlooks the offset still to be skipped.
seek_adjust_buffers(f, offset, whence) ==
    IF whence = 1
    THEN offset - BLen(f.rbuffer) + BLen(f.sbuffer)
    ELSE offset

\* seek(), lines 286-297: the offset of a relative seek, taken from the
\* actual position instead of the apparent one.
seek_adjust(f, offset, whence) ==
    IF whence = 1
    THEN offset - BLen(f.rbuffer) + BLen(f.sbuffer) + f.soffset
    ELSE offset

\* seek(offset, whence=0)
seek(f, offset, whence) ==
    IF whence > 2 \/ whence < 0 THEN {Raise(f, "InvalidWhenceError")}
    ELSE IF f.mode # NoMode /\ "-" \in f.mode THEN {Raise(f, "NotSeekableError")}
    ELSE
    Bind(IF Truthy(f.wbuffer) THEN self_flush(f) ELSE {Ok(f, None)}, LAMBDA r0 :
    LET off == seek_adjust(r0.st, offset, whence)
        f1 == [r0.st EXCEPT !.rbuffer = None, !.sbuffer = None, !.soffset = 0]
    IN  IF off = 0 /\ whence = 1 THEN {Ok(f1, None)}
        ELSE UNION {IF r.err = "ok" THEN {Ok([r.st EXCEPT !.sbuffer = r.out], None)}
                    ELSE IF r.err = "NotImplementedError"
                    THEN seek_simulate(r.st, off, whence)
                    ELSE {Raise([r.st EXCEPT !.sbuffer = None], r.err)}
                    : r \in _seek(f1, off, whence)})

\* A write that puts the bytes of the gap in front and keeps them too.
write_gap_kept(f, string) ==
    IF Truthy(f.sbuffer) THEN {Ok(f, f.sbuffer \o string)}
    ELSE IF f.soffset # 0
    THEN Bind(read([f EXCEPT !.soffset = 0], f.soffset), LAMBDA r :
         Bind(seek(r.st, 0, 0), LAMBDA q : {Ok(q.st, r.out \o string)}))
    ELSE {Ok(f, string)}

\* write(string), lines 450-459: the bytes to write, with those of a gap
\* the file is behind by put in front.
write_gap(f, string) ==
    IF Truthy(f.sbuffer) THEN {Ok([f EXCEPT !.sbuffer = None], f.sbuffer \o string)}
    ELSE IF f.soffset # 0
    THEN Bind(read([f EXCEPT !.soffset = 0], f.soffset), LAMBDA r :
         Bind(seek(r.st, 0, 0), LAMBDA q : {Ok(q.st, r.out \o string)}))
    ELSE {Ok(f, string)}

\* A write that puts the bytes still buffered last.
write_string_reversed(f, string) ==
    IF Truthy(f.wbuffer) THEN string \o f.wbuffer ELSE string

\* write(string), lines 460-461: the bytes still buffered go first.
write_string(f, string) ==
    IF Truthy(f.wbuffer) THEN f.wbuffer \o string ELSE string

\* A write that does not seek when the stream was being read.
write_switch_none(f) == {Ok(f, None)}

\* write(string), lines 447-449: after reading, make the actual position
\* the apparent one.
write_switch(f) ==
    IF f.rbuffer # None THEN seek(f, 0, 1) ELSE {Ok(f, None)}

\* write(string) that forgets the bytes _write has not written.
write_forgetful(f, string) ==
    IF f.closed THEN {Raise(f, "ClosedError")}
    ELSE IF ~_assert_mode(f, {"w", "-"}) THEN {Raise(f, "ModeViolationError")}
    ELSE
    Bind(write_switch(f), LAMBDA r1 :
    Bind(write_gap(r1.st, string), LAMBDA r2 :
    Bind(_write(r2.st, write_string(r2.st, r2.out), FALSE), LAMBDA r3 :
    {Ok([r3.st EXCEPT !.wbuffer = <<>>], None)})))

\* write(string)
write(f, string) ==
    IF f.closed THEN {Raise(f, "ClosedError")}
    ELSE IF ~_assert_mode(f, {"w", "-"}) THEN {Raise(f, "ModeViolationError")}
    ELSE
    Bind(write_switch(f), LAMBDA r1 :
    Bind(write_gap(r1.st, string), LAMBDA r2 :
    Bind(_write(r2.st, write_string(r2.st, r2.out), FALSE), LAMBDA r3 :
    {Ok([r3.st EXCEPT !.wbuffer = IF r3.out = None THEN <<>> ELSE r3.out],
        None)})))

\* readlines() / xreadlines(): [ln for ln in self].
RECURSIVE readlines_from(_, _)
readlines_from(f, acc) ==
    UNION {IF r.err = "ok" THEN readlines_from(r.st, Append(acc, r.out))
           ELSE IF r.err = "StopIteration"
           THEN {[st |-> r.st, lns |-> acc, err |-> "ok"]}
           ELSE {[st |-> r.st, lns |-> <<>>, err |-> r.err]} : r \in next(f)}
readlines(f) == readlines_from(f, <<>>)

\* ------------------------------------------------------------ the state
VARIABLES
    content, pos,       \* the backing resource and its cursor
    files, curFile,     \* of a join: its files and the one in use
    files0,             \* the files at construction
    obj,                \* the object handed to is_filelike and to_filelike
    run,                \* the call under way, when its loops are taken a
                        \* call of _read at a time ("idle": none)
    content0,           \* the content at construction
    ended,              \* _read has returned None at this position
    bufsize, mode, hasSize,  \* fixed at construction
    absorbs,            \* the resource writes all it is given in a flush
    closed, rbuffer, wbuffer, sbuffer, soffset,  \* FileLikeBase's fields
    last,               \* the last call, its result and what it found
    phase,              \* the calls since construction: "init" none,
                        \* "writes" writes only, "sought" writes and then
                        \* seek(0, 0), "readback" those and then read(),
                        \* "reads" read(size > 0) only, "lines" readline()
                        \* and next() only, "readlines" one readlines()
    log,                \* the bytes written ("writes" to "readback") or
                        \* returned ("reads", "lines") by these calls
    lines,              \* the lines returned ("lines", "readlines")
    eof                 \* a read has returned "" at the end of the resource

vars == <<content, content0, pos, ended, files, curFile, files0, obj, run, bufsize, mode, hasSize, absorbs, closed,
          rbuffer,
          wbuffer, sbuffer, soffset, last, phase, log, lines, eof>>

\* The object, as a call of a public method finds it.  stall: the empty
\* strings _read may still return to the read(size) under way; wrote: the
\* arguments of the calls of _write during the call; sawEnd:
\* _read has returned None during the call; prims: _read, _write or _seek
\* has been called during the call.
self ==
    [content |-> content, pos |-> pos, ended |-> ended,
     files |-> files, curFile |-> curFile,
     stall |-> 0, sawEnd |-> FALSE, prims |-> FALSE, wrote |-> <<>>,
     bufsize |-> bufsize, mode |-> mode, hasSize |-> hasSize,
     absorbs |-> absorbs,
     closed |-> closed, rbuffer |-> rbuffer, wbuffer |-> wbuffer,
     sbuffer |-> sbuffer, soffset |-> soffset]

\* The object a stream over content c starts as (FileLikeBase.__init__).
Construct(c, bs, m, hs) ==
    [content |-> c, pos |-> 0, ended |-> FALSE,
     files |-> <<>>, curFile |-> 0,
     stall |-> 0, sawEnd |-> FALSE, prims |-> FALSE, wrote |-> <<>>,
     bufsize |-> bs, mode |-> m, hasSize |-> hs, absorbs |-> absorbs,
     closed |-> FALSE, rbuffer |-> None, wbuffer |-> None,
     sbuffer |-> None, soffset |-> 0]

\* ------------------------------------------- is_filelike, to_filelike
(* The object handed to is_filelike and to_filelike: what it is (a string, *)
(* an instance of a subclass of FileLikeBase, or any other object) and its *)
(* attributes: of an instance of FileLikeBase the primitives its class     *)
(* overrides, of another object the file methods it has.                   *)
Attrs == {"read", "readline", "readlines", "__iter__",
          "write", "writelines", "close", "seek", "tell"}
Primitives == {"_read", "_write", "_seek"}
Objects ==
    {[kind |-> "object", attrs |-> a] : a \in SUBSET Attrs}
        \cup {[kind |-> "string", attrs |-> {}]}
        \cup {[kind |-> "FileLikeBase", attrs |-> a] : a \in SUBSET Primitives}
NoObject == [kind |-> "none", attrs |-> {}]

\* hasattr(o, a) for a file method a: FileLikeBase defines them all.
hasattr(o, a) == IF o.kind = "FileLikeBase" THEN TRUE ELSE a \in o.attrs

\* is_filelike(o, m), lines 637-675; of an instance of FileLikeBase the
\* primitive has to be one of the subclass (im_class is not FileLikeBase).
is_filelike_part(o, primitive, attrs) ==
    IF o.kind = "FileLikeBase" THEN primitive \in o.attrs
    ELSE \A a \in attrs : hasattr(o, a)

is_filelike(o, m) ==
    /\ "r" \in m =>
           is_filelike_part(o, "_read",
                            {"read", "readline", "readlines", "__iter__"})
    /\ ("w" \in m \/ "a" \in m) =>
           is_filelike_part(o, "_write", {"write", "writelines", "close"})
    /\ "-" \notin m => is_filelike_part(o, "_seek", {"seek", "tell"})

\* to_filelike(o, m): "obj" for the object itself, "StringIO" and
\* "FileWrapper" for a wrapper of that class around it, or ValueError.
to_filelike(o, m) ==
    LET hasRead == hasattr(o, "read")
        hasWrite == hasattr(o, "write")
        hasSeek == hasattr(o, "seek")
        wrapped == [out |-> "FileWrapper", err |-> "ok"]
    IN  IF is_filelike(o, m) THEN [out |-> "obj", err |-> "ok"]
        ELSE IF o.kind = "string" THEN [out |-> "StringIO", err |-> "ok"]
        ELSE IF "r" \in m /\ ("w" \in m \/ "a" \in m \/ "+" \in m)
                /\ hasRead /\ hasWrite /\ hasSeek
        THEN wrapped
        ELSE IF "r" \in m /\ ~("w" \in m \/ "a" \in m \/ "+" \in m)
                /\ "-" \notin m /\ hasRead /\ hasSeek
        THEN wrapped
        ELSE IF "r" \in m /\ ~("w" \in m \/ "a" \in m \/ "+" \in m)
                /\ "-" \in m /\ hasRead
        THEN wrapped
        ELSE IF ("w" \in m \/ "a" \in m) /\ "-" \notin m
                /\ hasWrite /\ hasSeek
        THEN wrapped
        ELSE IF ("w" \in m \/ "a" \in m) /\ "-" \in m /\ hasWrite
        THEN wrapped
        ELSE [out |-> None, err |-> "ValueError"]

\* The non-empty buffers of the object.
Pending(f) ==
    {b \in {"readAhead", "writeBehind", "skipGap", "skipOffset"} :
        \/ b = "readAhead" /\ Truthy(f.rbuffer)
        \/ b = "writeBehind" /\ Truthy(f.wbuffer)
        \/ b = "skipGap" /\ Truthy(f.sbuffer)
        \/ b = "skipOffset" /\ f.soffset # 0}

\* A call, its result and whether it called _read, _write or _seek
\* (prims).  For a write the string (data), for a close whether it found
\* the stream closed (pre), for a
\* read and a seek also what the call found:
\* the non-empty buffers (pre), the apparent position (ptell; of a seek,
\* when it is relative to it), whether a read had returned "" at the end
\* (peof), and the offset of the seek(x, 0) that was the call before
\* (sought, or -1).
Call(op, arg, whence, r) ==
    [op |-> op, arg |-> arg, whence |-> whence, out |-> None, err |-> r.err,
     prims |-> r.st.prims, wrote |-> r.st.wrote, data |-> <<>>,
     sawEnd |-> FALSE, ptell |-> 0, pre |-> {}, peof |-> FALSE, sought |-> -1]

NoCall ==
    Call("none", 0, 0, [err |-> "ok", st |-> [prims |-> FALSE, wrote |-> <<>>]])

\* No call under way.  stall: the empty strings _read may still return
\* to the calls taken a call of _read at a time.
Idle ==
    [op |-> "idle", size |-> 0, rsize |-> 0, data |-> <<>>, bits |-> <<>>,
     ret |-> <<>>, stall |-> MaxStall]

InitObject ==
    /\ obj = NoObject
    /\ run = Idle
    /\ content0 = content
    /\ files0 = files
    /\ curFile = 0
    /\ pos = 0
    /\ ended = FALSE
    /\ bufsize \in 1..MaxBufsize
    /\ closed = FALSE
    /\ rbuffer = None
    /\ wbuffer = None
    /\ sbuffer = None
    /\ soffset = 0
    /\ last = NoCall
    /\ phase = "init"
    /\ log = <<>>
    /\ lines = <<>>
    /\ eof = FALSE

\* A read-write seekable stream (no 'mode' attribute).
Init ==
    /\ files = <<>>
    /\ content \in Contents
    /\ mode = NoMode
    /\ hasSize \in BOOLEAN
    /\ absorbs = TRUE
    /\ InitObject

\* A stream opened for streamed reading, mode "r-".
InitRead ==
    /\ files = <<>>
    /\ content \in Strings(Byte, 0, MaxLen)
    /\ mode = {"r", "-"}
    /\ hasSize = FALSE
    /\ absorbs = TRUE
    /\ InitObject

\* A read-write seekable stream over a resource that may leave bytes
\* unwritten in a flush too.
InitFlush ==
    /\ files = <<>>
    /\ content \in Contents
    /\ mode = NoMode
    /\ hasSize = TRUE
    /\ absorbs = FALSE
    /\ InitObject

\* The mode strings of the streams of ModeSpec: "r", "w", "a", "r+", "w-",
\* and no 'mode' attribute.
Modes == {{"r"}, {"w"}, {"a"}, {"r", "+"}, {"w", "-"}, NoMode}

\* A stream of any of these modes over a resource with content.
InitMode ==
    /\ files = <<>>
    /\ content = <<1, NL, 3>>
    /\ mode \in Modes
    /\ hasSize = TRUE
    /\ absorbs = TRUE
    /\ InitObject

\* The fields of the object after a call or a step of one.
Fields(f) ==
    /\ content' = f.content
    /\ pos' = f.pos
    /\ ended' = f.ended
    /\ files' = f.files
    /\ curFile' = f.curFile
    /\ closed' = f.closed
    /\ rbuffer' = f.rbuffer
    /\ wbuffer' = f.wbuffer
    /\ sbuffer' = f.sbuffer
    /\ soffset' = f.soffset
    /\ UNCHANGED <<content0, files0, obj, bufsize, mode, hasSize, absorbs>>

\* The object after a call that ran as a whole.
Becomes(f) == Fields(f) /\ UNCHANGED run

Forget == phase' = "other" /\ log' = <<>> /\ lines' = <<>>

\* read(size)
Read(size) ==
    \E r \in read(self, size) :
        /\ Becomes(r.st)
        /\ last' = [Call("read", size, 0, r) EXCEPT
                       !.out = r.out, !.sawEnd = r.st.sawEnd,
                       !.ptell = tell(self), !.pre = Pending(self),
                       !.peof = eof,
                       !.sought = IF last.op = "seek" /\ last.whence = 0
                                     /\ last.err = "ok"
                                  THEN last.arg ELSE -1]
        /\ eof' = (r.err = "ok" /\ r.out = <<>> /\ (r.st.sawEnd \/ eof))
        /\ IF r.err = "ok" /\ phase \in {"init", "reads"} /\ size > 0
           THEN phase' = "reads" /\ log' = log \o r.out /\ lines' = <<>>
           ELSE IF r.err = "ok" /\ phase = "sought" /\ size <= 0
           THEN phase' = "readback" /\ UNCHANGED <<log, lines>>
           ELSE Forget

\* read(size) with size > 0
ReadSome == \E size \in 1..MaxReadSize : Read(size)
\* read()
ReadAll == Read(-1)

\* readline(size)
Readline ==
    \E size \in {-1} \cup 1..MaxReadSize : \E r \in readline(self, size) :
        /\ Becomes(r.st)
        /\ last' = [Call("readline", size, 0, r) EXCEPT !.out = r.out]
        /\ eof' = (eof /\ r.err = "ok")
        /\ IF r.err = "ok" /\ size = -1 /\ phase \in {"init", "lines"}
           THEN /\ phase' = "lines"
                /\ log' = log \o r.out
                /\ lines' = IF r.out = <<>> THEN lines ELSE Append(lines, r.out)
           ELSE Forget

\* next() of the iterator protocol
IterNext ==
    \E r \in next(self) :
        /\ Becomes(r.st)
        /\ last' = [Call("next", -1, 0, r) EXCEPT !.out = r.out]
        /\ eof' = (eof /\ r.err \in {"ok", "StopIteration"})
        /\ IF r.err \in {"ok", "StopIteration"} /\ phase \in {"init", "lines"}
           THEN /\ phase' = "lines"
                /\ log' = IF r.err = "ok" THEN log \o r.out ELSE log
                /\ lines' = IF r.err = "ok" THEN Append(lines, r.out) ELSE lines
           ELSE Forget

\* readlines() and xreadlines()
Readlines ==
    \E r \in readlines(self) :
        /\ Becomes(r.st)
        /\ last' = Call("readlines", -1, 0, r)
        /\ eof' = (eof /\ r.err = "ok")
        /\ IF r.err = "ok" /\ phase = "init"
           THEN phase' = "readlines" /\ log' = <<>> /\ lines' = r.lns
           ELSE Forget

\* write(string), as long as the content stays within MaxSize.
Write ==
    \E string \in WriteStrings :
        /\ tell(self) + Len(string) <= (IF files = <<>> THEN MaxSize
                                        ELSE MaxJoinSize)
        /\ \E r \in write(self, string) :
            /\ Becomes(r.st)
            /\ last' = [Call("write", Len(string), 0, r) EXCEPT
                           !.data = string]
            /\ eof' = FALSE
            /\ IF r.err = "ok" /\ phase \in {"init", "writes"}
               THEN phase' = "writes" /\ log' = log \o string /\ lines' = <<>>
               ELSE Forget

\* The content of the resource.
Resource == IF files = <<>> THEN content ELSE JoinContent(files)

\* The size of the resource once the write buffer is flushed.
Size == Max(Len(Resource), tell(self))

\* seek(offset, whence) to a position x of the resource, by a caller that
\* has not closed the stream; of a join, also to the positions before its
\* start and after its end.
Seek ==
    /\ ~closed
    /\ \E x \in (IF files = <<>> THEN 0 ELSE -1)..
                 (Size + IF files = <<>> THEN 0 ELSE 1) : \E whence \in 0..2 :
        LET offset == CASE whence = 0 -> x
                        [] whence = 1 -> x - tell(self)
                        [] OTHER -> x - Size
        IN  \E r \in seek(self, offset, whence) :
            /\ Becomes(r.st)
            /\ last' = [Call("seek", offset, whence, r) EXCEPT
                           !.ptell = IF whence = 1 THEN tell(self) ELSE 0,
                           !.pre = Pending(self)]
            /\ eof' = FALSE
            /\ IF r.err = "ok" /\ phase = "writes" /\ whence = 0 /\ offset = 0
               THEN phase' = "sought" /\ UNCHANGED <<log, lines>>
               ELSE Forget

\* tell()
Tell ==
    /\ last' = Call("tell", tell(self), 0,
                     IF \E i \in 1..Min(curFile + 1, Len(files)) : files[i].closed
                     THEN Raise(self, "ValueError") ELSE Ok(self, None))
    /\ UNCHANGED <<content, content0, pos, ended, files, curFile, files0, obj, run,
                   bufsize, mode, hasSize, absorbs,
                   closed,
                   rbuffer, wbuffer, sbuffer, soffset, phase, log, lines, eof>>

\* flush()
Flush ==
    \E r \in self_flush(self) :
        /\ Becomes(r.st)
        /\ last' = Call("flush", 0, 0, r)
        /\ eof' = (eof /\ r.err = "ok")
        /\ Forget

\* close()
Close ==
    \E r \in self_close(self) :
        /\ Becomes(r.st)
        /\ last' = [Call("close", 0, 0, r) EXCEPT
                       !.pre = IF closed THEN {"closed"} ELSE {}]
        /\ eof' = (eof /\ r.err = "ok")
        /\ Forget

Next ==
    \/ ReadSome
    \/ ReadAll
    \/ Readline
    \/ IterNext
    \/ Readlines
    \/ Write
    \/ Seek
    \/ Tell
    \/ Flush
    \/ Close

\* A join of files, each at its start, with no 'mode' (Test_Join.makeFile).
JoinFiles ==
    {[i \in 1..Len(parts) |-> StringIO(parts[i])] : parts \in JoinParts}

InitJoin ==
    /\ files \in JoinFiles
    /\ content = <<>>
    /\ mode = NoMode
    /\ hasSize = FALSE
    /\ absorbs = TRUE
    /\ InitObject

\* Read-write seekable streams.
Spec == Init /\ [][Next]_vars

\* Streams opened for streamed reading.
ReadSpec == InitRead /\ [][Next]_vars

\* Streams of every access mode.
ModeSpec == InitMode /\ [][Next]_vars

\* Read-write seekable streams whose flush may fail.
FlushSpec == InitFlush /\ [][Next]_vars

\* Joins of files.
JoinSpec == InitJoin /\ [][Next]_vars

\* The mode strings handed to to_filelike by Test_IsTo: "r", "r-", "w",
\* "w-", "a", "rw", "r+".
ToModes == {{"r"}, {"r", "-"}, {"w"}, {"w", "-"}, {"a"}, {"r", "w"}, {"r", "+"}}

\* An object and a mode, before is_filelike or to_filelike is called.
InitTo ==
    /\ obj \in Objects
    /\ run = Idle
    /\ mode \in ToModes
    /\ files = <<>> /\ files0 = <<>> /\ curFile = 0
    /\ content = <<>> /\ content0 = <<>> /\ pos = 0 /\ ended = FALSE
    /\ bufsize = 1 /\ hasSize = FALSE /\ absorbs = TRUE
    /\ closed = FALSE
    /\ rbuffer = None /\ wbuffer = None /\ sbuffer = None /\ soffset = 0
    /\ last = NoCall
    /\ phase = "init" /\ log = <<>> /\ lines = <<>> /\ eof = FALSE

\* is_filelike(obj, mode)
IsFilelike ==
    /\ last' = [NoCall EXCEPT !.op = "is_filelike",
                              !.out = is_filelike(obj, mode)]
    /\ UNCHANGED <<content, content0, pos, ended, files, curFile, files0, obj, run,
                   bufsize, mode, hasSize, absorbs, closed,
                   rbuffer, wbuffer, sbuffer, soffset, phase, log, lines, eof>>

\* to_filelike(obj, mode)
ToFilelike ==
    /\ last' = [NoCall EXCEPT !.op = "to_filelike",
                              !.out = to_filelike(obj, mode).out,
                              !.err = to_filelike(obj, mode).err]
    /\ UNCHANGED <<content, content0, pos, ended, files, curFile, files0, obj, run,
                   bufsize, mode, hasSize, absorbs, closed,
                   rbuffer, wbuffer, sbuffer, soffset, phase, log, lines, eof>>

NextTo ==
    \/ IsFilelike
    \/ ToFilelike

\* The position a seek was to take the stream to, found at position p
\* with content of length n.
Target(call, p, n) ==
    CASE call.whence = 0 -> call.arg
      [] call.whence = 1 -> p + call.arg
      [] OTHER -> n + call.arg

\* seek(offset, whence) to a position within the contents of the files.
SeekWithin ==
    /\ Seek
    /\ Target(last', tell(self), Len(JoinContent(files)))
           \in 0..Len(JoinContent(files))

NextWithin ==
    \/ ReadSome
    \/ ReadAll
    \/ Readline
    \/ IterNext
    \/ Readlines
    \/ Write
    \/ SeekWithin
    \/ Tell

\* A join under reads, writes, seeks within its contents, and tell().
JoinWithinSpec == InitJoin /\ [][NextWithin]_vars

\* Calls of is_filelike and to_filelike.
ToSpec == InitTo /\ [][NextTo]_vars

\* ------------------------------------- the loops of reading, stepwise
(* read(size), readline(size) and the iteration `for ln in self`, one pass *)
(* of the loop of read() at a time: the call under way is `run`, its op    *)
(* the public call ("read", "readline", or "iter" for the iteration), size *)
(* the size handed to it, rsize the size of the read() under way, data the *)
(* data that read() has collected, bits the data readline() has collected, *)
(* ret what readline() has returned to the iteration.  The resource        *)
(* returns the empty string run.stall more times, returns None at its end  *)
(* and keeps returning it.  A configuration c is the object (st), the call *)
(* under way (run), the value the call returns (out), and the lines the    *)
(* iteration has produced (lines).                                         *)

Config == [st |-> self, run |-> run, out |-> None, lines |-> lines]

\* read(size) is entered, lines 367-372 and 380-386.
enter_read(c, size) ==
    [c EXCEPT !.run.rsize = size,
              !.run.data = IF Truthy(c.st.rbuffer) THEN c.st.rbuffer ELSE <<>>,
              !.st.rbuffer = IF size <= 0 THEN <<>> ELSE @]

\* readline(size) is entered, lines 405-409.
enter_readline(c, size) ==
    enter_read([c EXCEPT !.run.size = size, !.run.bits = <<>>], c.st.bufsize)

\* An iteration that ends with the first line.
leave_readline_once(c, ln) ==
    IF c.run.op = "readline" THEN [c EXCEPT !.run.op = "idle", !.out = ln]
    ELSE [c EXCEPT !.run.ret = Append(@, ln), !.run.op = "idle",
                   !.lines = IF ln = <<>> THEN @ ELSE Append(@, ln)]

\* readline() returns ln: to the caller, or to next() of the iteration
\* (lines 268-272), which ends at "" and else goes on to the next line.
leave_readline(c, ln) ==
    IF c.run.op = "readline" THEN [c EXCEPT !.run.op = "idle", !.out = ln]
    ELSE LET d == [c EXCEPT !.run.ret = Append(@, ln)]
         IN  IF ln = <<>> THEN [d EXCEPT !.run.op = "idle"]
             ELSE enter_readline([d EXCEPT !.lines = Append(@, ln)], -1)

\* read() returns output: to the caller, or to the loop of readline()
\* (lines 410-432).
leave_read(c, output) ==
    IF c.run.op = "read" THEN [c EXCEPT !.run.op = "idle", !.out = output]
    ELSE
    LET nextBit == output
        all == c.run.bits \o nextBit
        size == c.run.size
        indx == find(nextBit, NL)
    IN  IF nextBit = <<>> \/ (size > 0 /\ Len(all) >= size)
        THEN IF size > 0 /\ Len(all) > size
             THEN leave_readline([c EXCEPT !.st.rbuffer = From(all, size) \o @],
                                 Upto(all, size))
             ELSE leave_readline(c, all)
        ELSE IF indx = -1
        THEN enter_read([c EXCEPT !.run.bits = all], c.st.bufsize)
        ELSE leave_readline(
                 [c EXCEPT !.st.rbuffer = From(nextBit, indx + 1) \o @],
                 c.run.bits \o Upto(nextBit, indx + 1))

\* The loop of read() is left, lines 378 and 393-401.
finish_read(c) ==
    LET size == c.run.rsize
        data == c.run.data
    IN  IF size <= 0 THEN leave_read(c, data)
        ELSE IF Len(data) > size
        THEN leave_read([c EXCEPT !.st.rbuffer = From(data, size)],
                        Upto(data, size))
        ELSE leave_read([c EXCEPT !.st.rbuffer = <<>>], data)

\* One pass of the loop of the read() under way, lines 373-377 and 387-392:
\* the loop is left, or _read is called once.
read_pass(c) ==
    LET size == c.run.rsize
        data == c.run.data
    IN  IF size > 0 /\ Len(data) >= size THEN {finish_read(c)}
        ELSE {LET d == [c EXCEPT !.st = [r.st EXCEPT !.stall = 0],
                                 !.run.stall = r.st.stall]
              IN  IF r.out = None THEN finish_read(d)
                  ELSE [d EXCEPT !.run.data = data \o r.out]
              : r \in _read([c.st EXCEPT !.stall = c.run.stall],
                            IF size <= 0 THEN -1 ELSE size - Len(data))}

\* The state after a step that leaves configuration c of the call op(arg).
Step(c, op, arg) ==
    /\ Fields(c.st)
    /\ run' = c.run
    /\ lines' = c.lines
    /\ last' = IF c.run.op = "idle"
               THEN [Call(op, arg, 0, Ok(c.st, None)) EXCEPT !.out = c.out]
               ELSE last
    /\ UNCHANGED <<phase, log, eof>>

\* A call of a reading method finds the stream open, readable, and with
\* nothing written or skipped pending (lines 342-365 have nothing to do).
Enters ==
    /\ run.op = "idle"
    /\ ~closed
    /\ _assert_mode(self, {"r", "-"})
    /\ wbuffer = None /\ ~Truthy(sbuffer) /\ soffset = 0

\* read(size) and read() are called.
CallRead ==
    /\ Enters
    /\ \E size \in {-1} \cup 1..MaxReadSize :
        Step(enter_read([Config EXCEPT !.run.op = "read", !.run.size = size],
                        size), "read", size)

\* readline(size) and readline() are called.
CallReadline ==
    /\ Enters
    /\ \E size \in {-1} \cup 1..MaxReadSize :
        Step(enter_readline([Config EXCEPT !.run.op = "readline"], size),
             "readline", size)

\* The iteration over the lines (lines 263-275) is started.
CallIter ==
    /\ Enters
    /\ Step(enter_readline([Config EXCEPT !.run.op = "iter", !.run.ret = <<>>,
                                          !.lines = <<>>], -1), "iter", -1)

\* The call under way runs one pass of the loop of read().
ReadPass ==
    /\ run.op # "idle"
    /\ \E c \in read_pass(Config) : Step(c, run.op, run.size)

NextStep ==
    \/ CallRead
    \/ CallReadline
    \/ CallIter
    \/ ReadPass

\* Calls of the reading methods of a stream opened for reading, a call of
\* _read at a time; a call under way keeps running.
StepSpec == InitRead /\ [][NextStep]_vars /\ WF_vars(ReadPass)

\* --------------------------------------------------------- properties
\* Python's data[a:b] of the content, for 0 <= a.
Slice(data, a, b) == SubSeq(data, a + 1, Min(b, Len(data)))

\* C1 (round trip): after a sequence of writes to a fresh read-write
\* seekable stream, seek(0, 0) and a read to the end, the read returns the
\* written strings concatenated in call order, followed by what the
\* resource already held beyond them (nothing, when it was empty).
RoundTrip ==
    (phase = "readback" /\ last.op = "read") =>
        /\ last.out = Overlay(content0, 0, log)
        /\ Upto(last.out, Len(log)) = log
        /\ content0 = <<>> => last.out = log
\* Two writes, <<2>> and then <<NL, 2>>, to an empty resource, read back.
RoundTripSeen ==
    /\ phase = "readback" /\ last.op = "read"
    /\ content0 = <<>>
    /\ log = <<2, NL, 2>>

\* C2 (seek/tell, start): after a successful seek(x, 0), tell() is x.
SeekStart ==
    (last.op = "seek" /\ last.whence = 0 /\ last.err = "ok") =>
        tell(self) = last.arg
\* A seek(x, 0) that found bytes waiting in the write buffer and was
\* carried out by a resource that stopped short of x.
SeekStartSeen ==
    /\ last.op = "seek" /\ last.whence = 0 /\ last.err = "ok"
    /\ last.pre = {"writeBehind"}
    /\ Truthy(sbuffer)
    /\ pos < last.arg

\* C3 (seek/tell, current): after a successful seek(n, 1), tell() is the
\* value tell() had before the call plus n.
SeekCurrent ==
    (last.op = "seek" /\ last.whence = 1 /\ last.err = "ok") =>
        tell(self) = last.ptell + last.arg
\* A forward seek(n, 1) on a resource that supports only seek(0, 0), from a
\* position that was itself only apparent: the resource is at its start.
SeekCurrentSeen ==
    /\ last.op = "seek" /\ last.whence = 1 /\ last.err = "ok"
    /\ last.arg > 0
    /\ last.pre = {"skipOffset"}
    /\ pos = 0
    /\ soffset = last.ptell + last.arg

\* C4 (seek/tell, end): after a successful seek(-k, 2) with 0 <= k <= size,
\* tell() is size - k, size being that of the resource.
SeekEnd ==
    (last.op = "seek" /\ last.whence = 2 /\ last.err = "ok") =>
        tell(self) = Len(content) + last.arg
\* A seek(-k, 2), k > 0, on a resource with no 'size' attribute that
\* refused it: the size was found by reading the lines to the end.
SeekEndSeen ==
    /\ last.op = "seek" /\ last.whence = 2 /\ last.err = "ok"
    /\ last.arg < 0
    /\ ~hasSize
    /\ soffset = Len(content) + last.arg
    /\ soffset > 0

\* C5 (seek then read): a read(n) right after a successful seek(x, 0)
\* returns the bytes x .. x+n of the resource, a read() those from x on.
SeekThenRead ==
    (last.op = "read" /\ last.sought >= 0) =>
        /\ last.err = "ok"
        /\ last.out = IF last.arg <= 0 THEN From(content, last.sought)
                      ELSE Slice(content, last.sought, last.sought + last.arg)
\* A read(n) after a seek(x, 0), x > 1, that had only reset the resource
\* to its start: the read skipped x bytes and returned the next ones.
SeekThenReadSeen ==
    /\ last.op = "read" /\ last.sought > 1 /\ last.arg > 0
    /\ last.pre = {"skipOffset"}
    /\ last.err = "ok"
    /\ last.out # <<>>

\* C6 (chunked equivalence): on a stream that is only read, the results of
\* read(n), n > 0, called until one is empty, concatenate to what a single
\* read() of the same resource returns.
ChunkedEquivalence ==
    (phase = "reads" /\ last.op = "read" /\ last.out = <<>>) =>
        \A r \in read(Construct(content0, bufsize, mode, hasSize), -1) :
            r.err = "ok" /\ r.out = log
\* Three bytes read in several calls (MaxReadSize < 3), then "".
ChunkedEquivalenceSeen ==
    /\ phase = "reads" /\ last.op = "read" /\ last.out = <<>>
    /\ Len(log) = MaxLen
    /\ MaxReadSize < MaxLen

\* C7 (exact-size read): a successful read(n), n > 0, returns the
\* min(n, bytes left) bytes at the apparent position, fewer than n only
\* when the resource signalled its end during the call; what the resource
\* returned beyond them is kept, in order, in the read buffer, which holds
\* the bytes between the apparent and the actual position.
ExactSizeRead ==
    (last.op = "read" /\ last.arg > 0 /\ last.err = "ok") =>
        /\ Len(last.out) = Min(last.arg, Len(content) - last.ptell)
        /\ last.out = Slice(content, last.ptell, last.ptell + last.arg)
        /\ Len(last.out) < last.arg => last.sawEnd
        /\ rbuffer = Slice(content, last.ptell + Len(last.out), pos)
\* A read(n) that returned n bytes and kept a surplus.
ExactSizeReadSeen ==
    /\ last.op = "read" /\ last.arg > 0 /\ last.err = "ok"
    /\ Len(last.out) = last.arg
    /\ Truthy(rbuffer)
    /\ ~last.sawEnd

\* C8 (apparent position): after any sequence of read(n) calls on a fresh
\* stream, tell() is the number of bytes they returned.
TellAfterReads ==
    phase = "reads" => tell(self) = Len(log)
\* The resource has been read further than the caller.
TellAfterReadsSeen ==
    phase = "reads" /\ Len(log) > 0 /\ Truthy(rbuffer) /\ pos > Len(log)

\* C9 (idempotent end-of-file): once a read has returned "" at the end,
\* every later read on the open stream, with no seek or write in between,
\* returns "" and raises nothing.
IdempotentEOF ==
    (last.op = "read" /\ last.peof /\ ~closed) =>
        last.err = "ok" /\ last.out = <<>>
\* A read after the end of a resource that held data.
IdempotentEOFSeen ==
    /\ last.op = "read" /\ last.peof /\ last.err = "ok"
    /\ last.ptell = Len(content)
    /\ content # <<>>

\* The end of the lines has been reported.
LinesEnded ==
    \/ phase = "readlines"
    \/ phase = "lines" /\ last.op = "readline" /\ last.out = <<>>
    \/ phase = "lines" /\ last.op = "next" /\ last.err = "StopIteration"

\* C10 (line integrity): the lines readline() / next() return are, in
\* order, consecutive pieces of the content from its start; each is
\* non-empty and holds a newline at its end or nowhere, and one without a
\* newline is the last piece of the content.  Once the end is reported the
\* pieces make up the content, as do the lines readlines() returns.
LineIntegrity ==
    phase \in {"lines", "readlines"} =>
        /\ Flatten(lines) = Upto(content, Len(Flatten(lines)))
        /\ \A i \in 1..Len(lines) :
            /\ lines[i] # <<>>
            /\ \A j \in 1..(Len(lines[i]) - 1) : lines[i][j] # NL
            /\ \/ lines[i][Len(lines[i])] = NL
               \/ i = Len(lines) /\ Flatten(lines) = content
        /\ phase = "lines" => log = Flatten(lines)
        /\ LinesEnded => Flatten(lines) = content
\* The iterator has ended after two lines, the second with no newline.
LineIntegritySeen ==
    /\ phase = "lines" /\ last.op = "next" /\ last.err = "StopIteration"
    /\ Len(lines) = 2
    /\ lines[2][Len(lines[2])] # NL

\* C11 (bounded readline): a successful readline(size), size > 0, returns
\* at most size bytes and no byte after a newline; what was fetched and
\* not returned is back in the read buffer, which holds the bytes between
\* the apparent and the actual position.
BoundedReadline ==
    (last.op = "readline" /\ last.arg > 0 /\ last.err = "ok") =>
        /\ Len(last.out) <= last.arg
        /\ \A j \in 1..(Len(last.out) - 1) : last.out[j] # NL
        /\ BLen(rbuffer) = pos - tell(self)
        /\ Truthy(rbuffer) => rbuffer = Slice(content, tell(self), pos)

\* The fields of the object and the backing resource.
object == <<content, pos, ended, closed, rbuffer, wbuffer, sbuffer, soffset>>

\* C12 (closed stream): on a closed stream every read, readline, write and
\* flush raises ClosedError, calls no primitive and leaves the buffers and
\* the backing resource as they were.
ClosedStream ==
    [][(closed /\ last'.op \in {"read", "readline", "write", "flush"}) =>
           /\ last'.err = "ClosedError"
           /\ ~last'.prims
           /\ UNCHANGED object]_vars
\* A read on a closed stream whose read buffer holds bytes.
ClosedStreamSeen ==
    /\ closed /\ last.op = "read" /\ last.err = "ClosedError"
    /\ Truthy(rbuffer)

\* C13 (close is idempotent): a close() of an open stream that succeeds
\* leaves the stream closed, the write buffer empty and its bytes in the
\* resource at the place they were written to; a close() of a closed
\* stream raises nothing, calls no primitive and changes nothing.
CloseIdempotent ==
    [][last'.op = "close" =>
           /\ closed => /\ last'.err = "ok"
                        /\ ~last'.prims
                        /\ UNCHANGED object
           /\ (~closed /\ last'.err = "ok") =>
                  /\ closed'
                  /\ wbuffer' = None
                  /\ Truthy(wbuffer) =>
                         Slice(content', tell(self) - Len(wbuffer), tell(self))
                             = wbuffer]_vars
\* A close() of a stream already closed, whose first close() had to flush.
CloseIdempotentSeen ==
    /\ closed /\ last.op = "close" /\ last.err = "ok"
    /\ last.pre = {"closed"}
    /\ content # content0

\* The bytes written since construction are in the resource or, where
\* _write returned them, in the write buffer.
WritesRetained ==
    phase = "writes" =>
        /\ tell(self) = Len(log)
        /\ Upto(Overlay(content, pos, IF Truthy(wbuffer) THEN wbuffer ELSE <<>>),
                Len(log)) = log

\* C14 (mandatory flush): a write is not failed by a _write that returns
\* unwritten bytes, which stay in the write buffer; a flush(), close() or
\* seek() of an open stream with bytes in the write buffer either
\* succeeds, the bytes then being in the resource and the buffer empty,
\* or raises FlushIncompleteError, the resource then having taken fewer
\* bytes than it was given.
MandatoryFlush ==
    [][/\ WritesRetained'
       /\ (~closed /\ Truthy(wbuffer)
               /\ last'.op \in {"flush", "close", "seek"}) =>
              \/ /\ last'.err = "ok"
                 /\ Slice(content', tell(self) - Len(wbuffer), tell(self))
                        = wbuffer
                 /\ ~Truthy(wbuffer')
              \/ /\ last'.err = "FlushIncompleteError"
                 /\ pos' < pos + BLen(sbuffer) + Len(wbuffer)
                 /\ wbuffer' = None]_vars
\* A seek() that failed in the flush it starts with.
MandatoryFlushSeen ==
    last.op = "seek" /\ last.err = "FlushIncompleteError" /\ content # content0

\* The mode of the stream permits writing, reading.
PermitsWrite == mode = NoMode \/ mode \cap {"w", "a", "+"} # {}
PermitsRead == mode = NoMode \/ mode \cap {"r", "+"} # {}

\* C15 (mode guard): on an open stream a write, when the mode has none of
\* 'w', 'a', '+', and a read, when it has neither 'r' nor '+', raise
\* ModeViolationError, call no primitive and change no buffer; on a stream
\* with no mode attribute or with '+' in its mode both succeed.
ModeGuard ==
    [][/\ (~closed /\ last'.op = "write" /\ ~PermitsWrite) =>
              /\ last'.err = "ModeViolationError"
              /\ ~last'.prims
              /\ UNCHANGED object
       /\ (~closed /\ last'.op = "read" /\ ~PermitsRead) =>
              /\ last'.err = "ModeViolationError"
              /\ ~last'.prims
              /\ UNCHANGED object
       /\ (~closed /\ last'.op \in {"read", "write"}
               /\ (mode = NoMode \/ "+" \in mode)) =>
              last'.err = "ok"]_vars
\* A read refused on a stream opened for writing that has bytes waiting
\* in its write buffer.
ModeGuardSeen ==
    /\ mode = {"w"} /\ last.op = "read" /\ last.err = "ModeViolationError"
    /\ Truthy(wbuffer)

\* The content once the bytes of the write buffer are written.
Effective ==
    Overlay(content, tell(self) - BLen(wbuffer),
            IF Truthy(wbuffer) THEN wbuffer ELSE <<>>)

\* C16 (direction switch): a write of n bytes right after a read changes
\* exactly the bytes [k, k+n) of the content, k being the apparent
\* position, and moves it to k+n; a read right after a write returns the
\* content, the written bytes included, from the apparent position on,
\* and leaves the write buffer flushed; a seek(0, 1), as both do first,
\* leaves tell() as it was.
DirectionSwitch ==
    [][/\ (last.op = "read" /\ last.err = "ok"
               /\ last'.op = "write" /\ last'.err = "ok") =>
              /\ Effective' = Overlay(Effective, tell(self), last'.data)
              /\ tell(self)' = tell(self) + Len(last'.data)
       /\ (last.op = "write" /\ last.err = "ok"
               /\ last'.op = "read" /\ last'.err = "ok") =>
              /\ last'.out = IF last'.arg <= 0 THEN From(Effective, tell(self))
                             ELSE Slice(Effective, tell(self),
                                        tell(self) + last'.arg)
              /\ content' = Effective
              /\ tell(self)' = tell(self) + Len(last'.out)
       /\ (~closed /\ (rbuffer # None \/ wbuffer # None)) =>
              \A r \in seek(self, 0, 1) :
                  r.err = "ok" /\ tell(r.st) = tell(self)]_vars
\* A read that found bytes in the write buffer and returned what follows
\* them.
DirectionSwitchSeen ==
    /\ last.op = "read" /\ last.err = "ok"
    /\ last.pre = {"writeBehind"}
    /\ last.ptell > 0
    /\ last.out # <<>>

\* ------------------------------------------------------------- join
\* A join whose files are each at their start, with nothing buffered.
AtStart ==
    /\ ~closed /\ curFile = 0
    /\ \A i \in 1..Len(files) : files[i].pos = 0
    /\ ~Truthy(rbuffer) /\ ~Truthy(wbuffer)

\* What _read(sizehint) of a join does: r is an outcome of it.  It raises
\* nothing; it moves on over files that are exhausted, changing nothing
\* else, to the first file with bytes left, or to the last file; it
\* returns None only at the end of the last file, and else bytes of the
\* file it stops at, at least one, which the cursor of that file passes.
JoinReadOutcome(r) ==
    LET n == Len(files)
        to == r.st.curFile
        cf == files[to + 1]
    IN  /\ r.err = "ok"
        /\ to >= curFile /\ to <= n - 1
        /\ \A i \in (curFile + 1)..to : files[i].pos = Len(files[i].content)
        /\ \A i \in 1..n : i # to + 1 => r.st.files[i] = files[i]
        /\ r.st.files[to + 1].content = cf.content
        /\ IF r.out = None
           THEN /\ to = n - 1
                /\ cf.pos = Len(cf.content)
                /\ r.st.files[n] = files[n]
           ELSE /\ r.out # <<>>
                /\ r.out = Slice(cf.content, cf.pos, cf.pos + Len(r.out))
                /\ r.st.files[to + 1].pos = cf.pos + Len(r.out)

\* C17 (join read): a read() of a join whose files are each at their
\* start returns the contents of the files one after the other, in the
\* order of the list; the _read of a join returns None, the end of the
\* resource, only when the last file has nothing left, and a file before
\* the last that has nothing left, an empty file too, only makes the
\* next file the current one.
JoinRead ==
    [][(IsJoin(self) /\ ~closed /\ curFile < Len(files)) =>
          /\ (AtStart /\ last'.op = "read" /\ last'.arg <= 0) =>
                 (last'.err = "ok" /\ last'.out = JoinContent(files))
          /\ \A sizehint \in {-1} \cup 1..MaxReadSize :
                 \A r \in _read(self, sizehint) : JoinReadOutcome(r)
          /\ (last'.op = "read" /\ last'.sawEnd) =>
                 /\ curFile' = Len(files) - 1
                 /\ files'[Len(files)].pos = Len(files[Len(files)].content)]_vars

\* A read() of a join of three files, the middle one empty, that were at
\* their start: it has returned the bytes written to the first file and
\* the bytes of the last.
JoinReadSeen ==
    /\ last.op = "read" /\ last.arg <= 0 /\ last.err = "ok"
    /\ last.ptell = 0 /\ last.pre = {}
    /\ Len(files) = 3 /\ files[2].content = <<>> /\ curFile = 2
    /\ files[1].content # files0[1].content
    /\ last.out = files[1].content \o files[3].content

\* The sizes of the files of a join.
Sizes(fs) == [i \in 1..Len(fs) |-> Len(fs[i].content)]

\* C18 (join size preservation): whatever has been written to and sought
\* in a join, each file but the last has the size it had at construction;
\* a write puts its bytes at the position of the join in the contents of
\* the files taken one after the other, so that the bytes that do not fit
\* the current file go to the start of the next, and only the last file
\* grows, by the bytes that go beyond the end of all the files.
JoinSizes ==
    [][IsJoin(self) =>
          /\ \A i \in 1..(Len(files) - 1) : Sizes(files)[i] = Sizes(files0)[i]
          /\ \A i \in 1..(Len(files) - 1) : Sizes(files')[i] = Sizes(files0)[i]
          /\ (~closed /\ curFile < Len(files) /\ last'.op = "write") =>
                 /\ last'.err = "ok"
                 /\ JoinContent(files') =
                        Overlay(JoinContent(files), tell(self), last'.data)
                 /\ tell(self)' = tell(self) + Len(last'.data)
                 /\ Len(JoinContent(files')) =
                        Max(Len(JoinContent(files)),
                            tell(self) + Len(last'.data))]_vars

\* A write of two bytes at the start of a join of three files of a byte
\* each, the last of which had grown: the first byte is in the first file,
\* the second in the second, and neither file has grown.
JoinSizesSeen ==
    /\ last.op = "write" /\ last.err = "ok" /\ last.data = <<NL, 2>>
    /\ Sizes(files0) = <<1, 1, 1>> /\ Sizes(files) = <<1, 1, 2>>
    /\ files[1].content = <<NL>> /\ files[2].content = <<2>>
    /\ curFile = 1 /\ tell(self) = 2

\* C19 (join end-relative seek): for a join whose files hold L bytes in
\* all and 0 <= k <= L, wherever the join is, seek(-k, 2) succeeds and
\* leaves the contents alone, tell() is then L - k, and a read() that
\* follows returns the last k bytes of the contents of the files taken
\* one after the other, also when byte L - k is in a file before the last.
JoinSeekEnd ==
    [][IsJoin(self) =>
          /\ (~closed /\ last'.op = "seek" /\ last'.whence = 2
                 /\ last'.arg <= 0
                 /\ -1 * last'.arg <= Len(JoinContent(files))) =>
                 /\ last'.err = "ok"
                 /\ JoinContent(files') = JoinContent(files)
                 /\ tell(self)' = Len(JoinContent(files)) + last'.arg
          /\ (last.op = "seek" /\ last.whence = 2 /\ last.err = "ok"
                 /\ last.arg <= 0
                 /\ -1 * last.arg <= Len(JoinContent(files))
                 /\ last'.op = "tell") =>
                 (last'.err = "ok"
                  /\ last'.arg = Len(JoinContent(files)) + last.arg)
          /\ (last.op = "seek" /\ last.whence = 2 /\ last.err = "ok"
                 /\ last.arg <= 0
                 /\ -1 * last.arg <= Len(JoinContent(files))
                 /\ last'.op = "read" /\ last'.arg <= 0) =>
                 /\ last'.err = "ok"
                 /\ last'.out = From(JoinContent(files),
                                     Len(JoinContent(files)) + last.arg)
                 /\ Len(last'.out) = -1 * last.arg]_vars

\* A seek(-k, 2), k > 0, of a join with bytes read ahead, to a byte of a
\* file before the last, and in a file before the last that has bytes.
JoinSeekEndSeen ==
    /\ IsJoin(self)
    /\ last.op = "seek" /\ last.whence = 2 /\ last.arg < 0 /\ last.err = "ok"
    /\ last.pre = {"readAhead"}
    /\ curFile < Len(files) - 1
    /\ files[Len(files)].content # <<>>
    /\ tell(self) = Len(JoinContent(files)) + last.arg

\* The contents of the files of a join once its write buffer is written
\* to them.
JoinEffective ==
    Overlay(JoinContent(files), tell(self) - BLen(wbuffer),
            IF Truthy(wbuffer) THEN wbuffer ELSE <<>>)

\* C20 (join close and flush propagation): a flush() of a join that
\* returns has put the bytes of the join's write buffer in the files and
\* then flushed every file, so that no file holds unflushed data; a
\* close() of a join that returns has done the same, has marked the join
\* closed and has closed every file of the list, also those after the
\* current one; a close() of an open join with a current file returns.
JoinCloseFlush ==
    [][IsJoin(self) =>
          /\ (last'.op = "flush" /\ last'.err = "ok") =>
                 /\ ~closed /\ ~closed'
                 /\ ~Truthy(wbuffer')
                 /\ JoinContent(files') = JoinEffective
                 /\ \A i \in 1..Len(files) :
                        ~files'[i].dirty /\ ~files'[i].closed
          /\ (last'.op = "close" /\ last'.err = "ok") =>
                 /\ closed'
                 /\ ~Truthy(wbuffer')
                 /\ JoinContent(files') = JoinEffective
                 /\ \A i \in 1..Len(files) :
                        ~files'[i].dirty /\ files'[i].closed
          /\ (~closed /\ curFile < Len(files)
                 /\ last'.op \in {"flush", "close"}) => last'.err = "ok"
          /\ (~closed /\ last'.op \notin {"flush", "close"}) =>
                 \A i \in 1..Len(files) : ~files'[i].closed]_vars

\* A close() of an open join that was at its first file and had written
\* to its second: every file is closed and holds no unflushed data.
JoinCloseFlushSeen ==
    /\ IsJoin(self)
    /\ last.op = "close" /\ last.err = "ok" /\ last.pre = {}
    /\ closed /\ curFile = 0
    /\ files[2].content # files0[2].content
    /\ \A i \in 1..Len(files) : files[i].closed /\ ~files[i].dirty

\* --------------------------------------------------------- to_filelike
\* The methods a mode requires of the object to wrap.
Requires(m) ==
    (IF "r" \in m THEN {"read"} ELSE {})
        \cup (IF m \cap {"w", "a", "+"} # {} THEN {"write"} ELSE {})
        \cup (IF "-" \notin m THEN {"seek"} ELSE {})

\* C21 (to_filelike capability check): for an object that is no string
\* and is not file-like for the mode, to_filelike(obj, mode) returns a
\* wrapper if the object has every method the mode requires (read for
\* 'r'; write for 'w', 'a' or '+'; seek unless '-') and raises ValueError
\* if it lacks one of them, for each of the modes r, r-, w, w-, a, rw, r+.
ToFilelikeChecks ==
    (last.op = "to_filelike" /\ obj.kind # "string"
        /\ ~is_filelike(obj, mode)) =>
        IF \A a \in Requires(mode) : hasattr(obj, a)
        THEN last.err = "ok" /\ last.out = "FileWrapper"
        ELSE last.err = "ValueError"

\* ------------------------------------------------------------ buffers
\* C22 (buffer exclusivity): between the calls of read, readline, write,
\* seek, flush and close on a stream, the read buffer and the write
\* buffer are never both non-empty.
BufferExclusive == ~(Truthy(rbuffer) /\ Truthy(wbuffer))

\* A read that found bytes in the write buffer and has left bytes in the
\* read buffer.
BufferExclusiveSeen ==
    /\ last.op = "read" /\ last.err = "ok" /\ "writeBehind" \in last.pre
    /\ Truthy(rbuffer) /\ ~Truthy(wbuffer)

\* A buffer as a string: "" for None.
Str(b) == IF Truthy(b) THEN b ELSE <<>>

Skipping == Truthy(sbuffer) \/ soffset # 0

\* C24 (write through a skip): when a seek to the apparent position x,
\* 0 <= x <= size, has left the resource behind at position a < x (the
\* bytes between being in the skip buffer, or x being the skip offset
\* after a reset to the start), a write(b) that follows succeeds, leaves
\* the bytes a .. x of the resource as they were, puts b at x .. x + |b|,
\* clears the skip buffer and the skip offset, and tell() is then x + |b|.
WriteThroughSkip ==
    [][(~IsJoin(self) /\ ~closed /\ PermitsWrite /\ Skipping
           /\ tell(self) <= Len(content) /\ last'.op = "write") =>
          /\ last'.err = "ok"
          /\ pos < tell(self)
          /\ Slice(content', pos, tell(self)) = Slice(content, pos, tell(self))
          /\ Effective' = Overlay(content, tell(self), last'.data)
          /\ ~Truthy(sbuffer') /\ soffset' = 0
          /\ tell(self)' = tell(self) + Len(last'.data)]_vars

\* C25 (flush trigger): a flush() of an open stream calls _write, once
\* and with flushing set, if and only if the write buffer together with
\* a pending skip buffer holds bytes; when they hold none, as right
\* after a write all of whose bytes _write has written, flush() does not
\* call _write.
FlushTrigger ==
    [][(~IsJoin(self) /\ ~closed /\ last'.op = "flush") =>
          IF Str(sbuffer) \o Str(wbuffer) # <<>>
          THEN Len(last'.wrote) = 1 /\ last'.wrote[1].flushing
          ELSE last'.wrote = <<>>]_vars

\* C26 (join cursor bound): whatever is read from, written to and sought
\* in a join of one file or more, seeks to beyond the end of the last
\* file and to before the start included, the index of the current file
\* is at least 0 and at most the number of files less one; a read, a
\* write and a seek forwards do not decrease it and a seek backwards does
\* not increase it.
JoinCursorBound ==
    [][IsJoin(self) =>
          /\ 0 <= curFile' /\ curFile' <= Len(files) - 1
          /\ last'.op \in {"read", "readline", "next", "readlines", "write"} =>
                 curFile' >= curFile
          /\ (last'.op = "seek"
                 /\ Target(last', tell(self), Len(JoinContent(files)))
                        > tell(self)) =>
                 curFile' >= curFile
          /\ (last'.op = "seek"
                 /\ Target(last', tell(self), Len(JoinContent(files)))
                        < tell(self)) =>
                 curFile' <= curFile]_vars

\* C27 (join backward seek): a seek(-d, 1), d > 0, of a join at position
\* p succeeds and leaves it at position max(p - d, 0); each file it goes
\* back over is left at its start and the index of the current file does
\* not grow; for d > p the join is at the start of its first file, the
\* current file, and tell() is 0.
JoinSeekBack ==
    [][(IsJoin(self) /\ ~closed /\ last'.op = "seek" /\ last'.whence = 1
           /\ last'.arg < 0) =>
          /\ last'.err = "ok"
          /\ tell(self)' = Max(tell(self) + last'.arg, 0)
          /\ JoinContent(files') = JoinContent(files)
          /\ curFile' <= curFile
          /\ \A i \in (curFile' + 2)..Min(curFile + 1, Len(files)) :
                 files'[i].pos = 0
          /\ -1 * last'.arg > tell(self) =>
                 (curFile' = 0 /\ files'[1].pos = 0 /\ tell(self)' = 0)]_vars

\* C28 (read termination): when _read returns None after finitely many
\* calls and from then on (with empty strings in between), every read(n),
\* read() and readline() under way returns, the iteration over the lines
\* ends, and it ends exactly at the first readline() that returns "": the
\* lines it produced are what readline() returned before that.
ReadTermination ==
    /\ [](/\ run.op = "iter" =>
              (run.ret = lines /\ \A i \in 1..Len(lines) : lines[i] # <<>>)
          /\ (run.op = "idle" /\ last.op = "iter") =>
              (run.ret = Append(lines, <<>>)
                  /\ \A i \in 1..Len(lines) : lines[i] # <<>>))
    /\ (run.op # "idle") ~> (run.op = "idle")

\* An iteration has produced two lines and ended, the resource having
\* returned its empty strings.
ReadTerminationSeen ==
    /\ run.op = "idle" /\ last.op = "iter"
    /\ Len(lines) = 2
    /\ run.stall = 0 /\ MaxStall > 0

\* C29 (skip-state exclusivity): between the calls of a stream the skip
\* buffer and the skip offset are never both non-empty, and when either is
\* non-empty the read-ahead and the write-behind buffers are both empty; a
\* skip state comes only from a seek; the next successful read or write
\* leaves none, and the next successful seek leaves only its own: the
\* apparent position is the target of that seek.
SkipExclusive ==
    /\ [](/\ ~(Truthy(sbuffer) /\ soffset # 0)
          /\ Skipping => (~Truthy(rbuffer) /\ ~Truthy(wbuffer)))
    /\ [][/\ (~Skipping /\ Skipping') => last'.op = "seek"
          /\ (Skipping /\ last'.err = "ok"
                 /\ last'.op \in {"read", "readline", "next", "readlines",
                                  "write"}) => ~Skipping'
          /\ (Skipping /\ last'.err = "ok" /\ last'.op = "seek") =>
                 tell(self)' = CASE last'.whence = 0 -> last'.arg
                                 [] last'.whence = 1 -> tell(self) + last'.arg
                                 [] OTHER -> Len(content) + last'.arg]_vars

\* A read has found the skip offset of a seek simulated from the start,
\* has read the skipped bytes, and has returned the bytes after them.
SkipExclusiveSeen ==
    /\ last.op = "read" /\ last.err = "ok" /\ last.out # <<>>
    /\ last.pre = {"skipOffset"}
    /\ last.ptell > 0
    /\ ~Skipping

\* C30 (join positional invariant): in a join whose files were at their
\* start when it was made, after any reads, writes and seeks to positions
\* within the contents, every file before the current one is at its end
\* and every file after it at its start, so the positions of the files up
\* to the current one, summed, are the offset into the contents of the
\* files taken one after the other: a read() returns the contents from
\* tell() on.
JoinPositions ==
    /\ [](/\ curFile \in 0..(Len(files) - 1)
          /\ \A i \in 1..Len(files) :
                /\ i < curFile + 1 => files[i].pos = Len(files[i].content)
                /\ i > curFile + 1 => files[i].pos = 0
          /\ curFile < Len(files) =>
                /\ _tell(self) = Len(JoinContent(SubSeq(files, 1, curFile)))
                                     + files[curFile + 1].pos
                /\ tell(self) = _tell(self) - BLen(rbuffer))
    /\ [][(last'.op = "read" /\ last'.arg <= 0) =>
              /\ last'.err = "ok"
              /\ last'.out = From(JoinContent(files), tell(self))]_vars

\* A seek back from the end of the third file to the start of the second
\* has left the third at its start and the first at its end.
JoinPositionsSeen ==
    /\ last.op = "seek" /\ last.err = "ok"
    /\ last.whence = 1 /\ last.arg < -1 /\ last.ptell = Len(JoinContent(files))
    /\ curFile = 1 /\ files[2].pos = 0
    /\ files[1].pos > 0
    /\ files[3].content # <<>> /\ files[3].pos = 0

\* C31 (failed close): a close() of an open stream whose flush raises
\* FlushIncompleteError raises it to the caller and leaves the stream
\* open; a stream becomes closed only in a close() that returns, whose
\* flush has put the bytes of the skip and write buffers, if any, in the
\* resource with one _write call made flushing; and a closed stream has
\* no bytes in its write buffer.
FailedClose ==
    /\ [](closed => ~Truthy(wbuffer))
    /\ [][/\ (~closed /\ last'.op = "close" /\ last'.err # "ok") => ~closed'
          /\ (~closed /\ last'.op = "close" /\ last'.err = "ok") => closed'
          /\ (~closed /\ closed') =>
                /\ last'.op = "close" /\ last'.err = "ok"
                /\ Len(last'.wrote) <= 1
                /\ \A i \in 1..Len(last'.wrote) : last'.wrote[i].flushing
                /\ (~IsJoin(self) /\ wbuffer # None /\ PermitsWrite) =>
                       /\ Len(last'.wrote) = 1
                       /\ last'.wrote[1].data = Str(sbuffer) \o Str(wbuffer)
                       /\ content' = Overlay(content, pos,
                                             Str(sbuffer) \o Str(wbuffer))]_vars

\* A close() of a stream with bytes in its write buffer has raised
\* FlushIncompleteError, and the stream is open.
FailedCloseSeen ==
    /\ last.op = "close" /\ last.err = "FlushIncompleteError"
    /\ ~closed
    /\ Len(last.wrote) = 1 /\ last.wrote[1].data # <<>>

\* C32 (failed flush discards pending bytes): a flush() that raises
\* FlushIncompleteError has handed the skip and write buffers to _write in
\* one call, made flushing, which wrote only the first bytes of them; the
\* write buffer and the skip buffer are then empty, the bytes not written
\* are kept nowhere, and tell() is lower than before the call by their
\* number; a flush() or close() right after it calls no _write, changes
\* nothing in the resource and returns without an error.
FailedFlush ==
    [][/\ (~closed /\ last'.op = "flush"
              /\ last'.err = "FlushIncompleteError") =>
              /\ Len(last'.wrote) = 1
              /\ last'.wrote[1].flushing
              /\ last'.wrote[1].data = Str(sbuffer) \o Str(wbuffer)
              /\ wbuffer' = None /\ ~Truthy(sbuffer')
              /\ pos' >= pos
              /\ pos' - pos < Len(last'.wrote[1].data)
              /\ content' = Overlay(content, pos,
                                    Upto(last'.wrote[1].data, pos' - pos))
              /\ tell(self)' = tell(self)
                                 - (Len(last'.wrote[1].data) - (pos' - pos))
       /\ (last.op = "flush" /\ last.err = "FlushIncompleteError"
              /\ last'.op \in {"flush", "close"}) =>
              /\ last'.err = "ok"
              /\ last'.wrote = <<>>
              /\ content' = content /\ pos' = pos
              /\ tell(self)' = tell(self)
              /\ closed' = (last'.op = "close")]_vars

\* A flush() of two bytes or more has raised FlushIncompleteError after
\* _write wrote some of them and left the rest.
FailedFlushSeen ==
    /\ last.op = "flush" /\ last.err = "FlushIncompleteError"
    /\ Len(last.wrote) = 1 /\ Len(last.wrote[1].data) >= 2
    /\ content # content0
    /\ wbuffer = None /\ ~Truthy(sbuffer)

====
